---- MODULE Spec2Model ----
(***************************************************************************)
(* CareerCompass job tracker: the REST handlers of server/routes.ts on top *)
(* of the two IStorage implementations of server/storage.ts (MemStorage,   *)
(* PostgresStorage) and the insert schemas of shared/schema.ts.            *)
(*                                                                         *)
(* JavaScript values are modelled as tagged pairs <<tag, payload>>; a key  *)
(* that is absent from a record's DOMAIN is JavaScript's undefined.        *)
(***************************************************************************)
EXTENDS Integers, Sequences, FiniteSets, TLC

\* ------------------------------------------------------------------ bounds
MaxCreates == 2          \* entities created in one run, all kinds together
MaxClock   == 1          \* ticks of the server clock in one run
MaxApps    == 40         \* job applications of one user in a populated store
MaxDated   == 3          \* applications of a store whose dates differ
MaxNow     == 4          \* latest clock reading a populated store starts at
TicksPerDay == 2         \* clock ticks that make up 1000 * 3600 * 24 ms

Users == {1, 2}          \* ids of the users that hold a session
Ids   == 1 .. (MaxCreates + 1)   \* ids a request may name in its path

\* ------------------------------------------------------------- JS values
S(s) == <<"string", s>>
N(n) == <<"number", n>>
B(b) == <<"boolean", b>>
D(t) == <<"Date", t>>        \* a Date object / a timestamp column value
ISO(t) == <<"isostring", t>> \* the JSON text of a date, as a body carries it
NULL == <<"null", 0>>

Tag(v) == v[1]
Has(r, f) == f \in DOMAIN r

\* JavaScript truthiness, as used by the `x || y` expressions of storage.ts
Truthy(v) == v \notin {NULL, S(""), N(0), B(FALSE)}

\* { ...a, ...b }
Spread(a, b) == [f \in DOMAIN a \cup DOMAIN b |-> IF f \in DOMAIN b THEN b[f] ELSE a[f]]

\* r.f || null
OrNull(r, f) == IF Has(r, f) /\ Truthy(r[f]) THEN r[f] ELSE NULL

\* a query parameter: node-postgres sends undefined as NULL
Param(r, f) == IF Has(r, f) THEN r[f] ELSE NULL

\* new Date(x).getTime() for the values a date field can hold
GetTime(v) == IF Tag(v) \in {"Date", "isostring"} THEN v[2] ELSE 0

\* a timestamp column stores what it is sent (a Date or a date text) as a
\* timestamp, and the driver reads it back as a Date
ToTimestamp(v) == IF Tag(v) \in {"Date", "isostring"} THEN D(v[2]) ELSE v

ValidStatus == {"applied", "interview", "offer", "rejected"}

\* ------------------------------------------------------------------ state
VARIABLES
  backend,          \* which IStorage implementation `storage` is
  now,              \* the server clock, what new Date() returns
  jobApplications,  \* id -> stored job application (Map entry / table row)
  documents,        \* id -> stored document
  interviews,       \* id -> stored interview
  jobApplicationId, \* next id of a job application (counter / serial)
  documentId,       \* next id of a document
  interviewId,      \* next id of an interview
  before,           \* the collections and counters as the call in `last` found them
  last,             \* the call whose response is on its way to the client
  inflight          \* requests whose handlers run interleaved, and their steps

vars == <<backend, now, jobApplications, documents, interviews,
          jobApplicationId, documentId, interviewId, before, last, inflight>>

Tables == [jobApplications |-> jobApplications, documents |-> documents,
           interviews |-> interviews]

Counters == [jobApplicationId |-> jobApplicationId, documentId |-> documentId,
             interviewId |-> interviewId]

Created == (jobApplicationId - 1) + (documentId - 1) + (interviewId - 1)

NoCall == [layer |-> "none", op |-> "none", kind |-> "none", auth |-> FALSE,
           user |-> 0, id |-> 0, body |-> <<>>, code |-> 0, json |-> <<>>,
           threw |-> FALSE, calls |-> <<>>]

\* no handlers are running interleaved
NoRace == <<>>

NoTables == [jobApplications |-> <<>>, documents |-> <<>>, interviews |-> <<>>]
NoSnapshot == [tables |-> NoTables,
               counters |-> [jobApplicationId |-> 0, documentId |-> 0, interviewId |-> 0]]

Init ==
  /\ backend \in {"mem", "pg"}
  /\ now = 0
  /\ jobApplications = <<>>
  /\ documents = <<>>
  /\ interviews = <<>>
  /\ jobApplicationId = 1
  /\ documentId = 1
  /\ interviewId = 1
  /\ before = NoSnapshot
  /\ last = NoCall
  /\ inflight = NoRace

\* no call is under way: the client has its last response and has not sent
\* the next request
Idle == last = NoCall

\* the clock only moves forward
Tick ==
  /\ Idle
  /\ now < MaxClock
  /\ now' = now + 1
  /\ UNCHANGED <<backend, jobApplications, documents, interviews,
                 jobApplicationId, documentId, interviewId, before, last, inflight>>

\* --------------------------------------------------------- zod schemas
\* createInsertSchema: a notNull column without default is required, a
\* notNull column with a default is optional, any other column is optional
\* and nullable; keys outside the schema are stripped by parse().
Req(t)     == [type |-> t, optional |-> FALSE, nullable |-> FALSE]
Opt(t)     == [type |-> t, optional |-> TRUE,  nullable |-> FALSE]
OptNull(t) == [type |-> t, optional |-> TRUE,  nullable |-> TRUE]

TypeOk(t, v) ==
  CASE t = "string"  -> Tag(v) \in {"string", "isostring"}
    [] t = "number"  -> Tag(v) = "number"
    [] t = "boolean" -> Tag(v) = "boolean"
    [] t = "date"    -> Tag(v) = "Date"
    [] OTHER         -> FALSE

insertJobApplicationSchema ==
  [userId |-> Req("number"), company |-> Req("string"), position |-> Req("string"),
   location |-> OptNull("string"), salary |-> OptNull("string"),
   jobType |-> OptNull("string"), workMode |-> OptNull("string"),
   description |-> OptNull("string"), notes |-> OptNull("string"),
   status |-> Opt("string"),
   resumeId |-> OptNull("number"), coverId |-> OptNull("number"),
   url |-> OptNull("string"), contactInfo |-> OptNull("string"),
   appliedDate |-> OptNull("date")]

\* schema.parse(input): does it pass, and what it returns
ZodOk(schema, input) ==
  \A f \in DOMAIN schema :
    IF Has(input, f)
      THEN \/ (input[f] = NULL /\ schema[f].nullable)
           \/ TypeOk(schema[f].type, input[f])
      ELSE schema[f].optional

ZodData(schema, input) == [f \in DOMAIN schema \cap DOMAIN input |-> input[f]]

\* ------------------------------------------------------- store helpers
Put(rows, id, e) == [k \in DOMAIN rows \cup {id} |-> IF k = id THEN e ELSE rows[k]]
Remove(rows, id) == [k \in DOMAIN rows \ {id} |-> rows[k]]

\* the outcome of one storage call: did it throw, the collections after it,
\* the value it resolved to (<<>> when it resolves to nothing)
Returned(tables, value) == [threw |-> FALSE, tables |-> tables, value |-> value]
Thrown == [threw |-> TRUE, tables |-> Tables, value |-> <<>>]

\* the entries of a collection that satisfy a filter, in key order (a Map
\* iterates in insertion order, and keys are inserted in increasing order)
RECURSIVE Entries(_, _)
Entries(rows, keys) ==
  IF keys = {} THEN <<>>
  ELSE LET k == CHOOSE x \in keys : \A y \in keys : x <= y
       IN <<rows[k]>> \o Entries(rows, keys \ {k})

\* an optional result: <<>> is undefined, <<e>> is the entity e
Undefined == <<>>
Defined(e) == <<e>>

\* ------------------------------------------- MemStorage: job applications
Mem_getJobApplicationsByUserId(userId) ==
  Entries(jobApplications,
          { id \in DOMAIN jobApplications : jobApplications[id].userId = N(userId) })

Mem_getJobApplicationById(id) ==
  IF id \in DOMAIN jobApplications THEN Defined(jobApplications[id]) ELSE Undefined

Mem_createJobApplication(application) ==
  LET id == jobApplicationId
      newApplication ==
        Spread(application,
          [id |-> N(id),
           url |-> OrNull(application, "url"),
           location |-> OrNull(application, "location"),
           salary |-> OrNull(application, "salary"),
           jobType |-> OrNull(application, "jobType"),
           workMode |-> OrNull(application, "workMode"),
           description |-> OrNull(application, "description"),
           notes |-> OrNull(application, "notes"),
           contactInfo |-> OrNull(application, "contactInfo"),
           appliedDate |-> IF Has(application, "appliedDate") /\ Truthy(application.appliedDate)
                             THEN application.appliedDate ELSE D(now),
           updatedAt |-> D(now)])
  IN Returned([Tables EXCEPT !.jobApplications = Put(jobApplications, id, newApplication)],
              newApplication)

\* updateJobApplication with the spread written { ...application, updatedAt, ...update }
Mem_updateJobApplication_UpdateLast(id, update) ==
  IF id \notin DOMAIN jobApplications THEN Thrown
  ELSE LET application == jobApplications[id]
           updatedApplication == Spread(Spread(application, [updatedAt |-> D(now)]), update)
       IN Returned([Tables EXCEPT !.jobApplications = Put(jobApplications, id, updatedApplication)],
                   updatedApplication)

\* updateJobApplication that counts a use of the document named as resumeId
Mem_updateJobApplication_CountsUsage(id, update) ==
  IF id \notin DOMAIN jobApplications THEN Thrown
  ELSE LET application == jobApplications[id]
           updatedApplication == Spread(Spread(application, update), [updatedAt |-> D(now)])
           used == { d \in DOMAIN documents :
                       Has(update, "resumeId") /\ update.resumeId = N(d) }
           counted == [d \in DOMAIN documents |->
                         IF d \in used
                           THEN [documents[d] EXCEPT !.usageCount = N(@[2] + 1)]
                           ELSE documents[d]]
       IN Returned([Tables EXCEPT !.jobApplications = Put(jobApplications, id, updatedApplication),
                                  !.documents = counted],
                   updatedApplication)

Mem_updateJobApplication(id, update) ==
  IF id \notin DOMAIN jobApplications THEN Thrown
  ELSE LET application == jobApplications[id]
           updatedApplication == Spread(Spread(application, update), [updatedAt |-> D(now)])
       IN Returned([Tables EXCEPT !.jobApplications = Put(jobApplications, id, updatedApplication)],
                   updatedApplication)

\* deleteJobApplication written like updateJobApplication, throwing on a missing id
Mem_deleteJobApplication_Throws(id) ==
  IF id \notin DOMAIN jobApplications THEN Thrown
  ELSE Returned([Tables EXCEPT !.jobApplications = Remove(jobApplications, id)], <<>>)

Mem_deleteJobApplication(id) ==
  Returned([Tables EXCEPT !.jobApplications = Remove(jobApplications, id)], <<>>)

\* -------------------------------------- PostgresStorage: job applications
\* A row is kept under the property names the row mappers give its columns.
\* The mappers of getJobApplicationById, createJobApplication and
\* updateJobApplication leave `notes` out.
WithoutNotes(row) == [f \in DOMAIN row \ {"notes"} |-> row[f]]

\* NOT NULL columns of the job_applications table
Pg_jobApplicationRowOk(row) == row.company # NULL /\ row.position # NULL

\* getJobApplicationsByUserId with the WHERE clause left out
Pg_getJobApplicationsByUserId_All(userId) ==
  Entries(jobApplications, DOMAIN jobApplications)

Pg_getJobApplicationsByUserId(userId) ==
  Entries(jobApplications,
          { id \in DOMAIN jobApplications : jobApplications[id].userId = N(userId) })

Pg_getJobApplicationById(id) ==
  IF id \in DOMAIN jobApplications
    THEN Defined(WithoutNotes(jobApplications[id])) ELSE Undefined

Pg_createJobApplication(application) ==
  LET row ==
        [id |-> N(jobApplicationId),
         userId |-> Param(application, "userId"),
         company |-> Param(application, "company"),
         position |-> Param(application, "position"),
         location |-> Param(application, "location"),
         salary |-> Param(application, "salary"),
         jobType |-> Param(application, "jobType"),
         workMode |-> Param(application, "workMode"),
         description |-> Param(application, "description"),
         notes |-> NULL,
         url |-> Param(application, "url"),
         status |-> IF Has(application, "status") /\ Truthy(application.status)
                      THEN application.status ELSE S("applied"),
         resumeId |-> Param(application, "resumeId"),
         coverId |-> Param(application, "coverId"),
         contactInfo |-> Param(application, "contactInfo"),
         appliedDate |-> IF Has(application, "appliedDate") /\ Truthy(application.appliedDate)
                           THEN ToTimestamp(application.appliedDate) ELSE D(now),
         updatedAt |-> D(now)]
  IN IF Pg_jobApplicationRowOk(row)
       THEN Returned([Tables EXCEPT !.jobApplications = Put(jobApplications, jobApplicationId, row)],
                     WithoutNotes(row))
       ELSE Thrown

\* the columns updateJobApplication builds a SET clause for
Pg_jobApplicationSetFields ==
  {"company", "position", "location", "salary", "jobType", "workMode",
   "description", "url", "status", "resumeId", "coverId", "contactInfo",
   "appliedDate"}

Pg_updateJobApplication(id, update) ==
  IF id \notin DOMAIN jobApplications THEN Thrown
  ELSE LET old == jobApplications[id]
           row == [f \in DOMAIN old |->
                     IF f = "updatedAt" THEN D(now)
                     ELSE IF f \in Pg_jobApplicationSetFields /\ Has(update, f)
                       THEN (IF f = "appliedDate" THEN ToTimestamp(update[f]) ELSE update[f])
                     ELSE old[f]]
       IN IF Pg_jobApplicationRowOk(row)
            THEN Returned([Tables EXCEPT !.jobApplications = Put(jobApplications, id, row)],
                          WithoutNotes(row))
            ELSE Thrown

\* ON DELETE CASCADE of interviews.job_application_id
Pg_deleteJobApplication(id) ==
  LET kept == IF id \in DOMAIN jobApplications
                THEN { i \in DOMAIN interviews : interviews[i].jobApplicationId # N(id) }
                ELSE DOMAIN interviews
  IN Returned([Tables EXCEPT !.jobApplications = Remove(jobApplications, id),
                             !.interviews = [i \in kept |-> interviews[i]]], <<>>)

\* ------------------------------------------------ storage: job applications
getJobApplicationsByUserId(userId) ==
  IF backend = "mem" THEN Mem_getJobApplicationsByUserId(userId)
                     ELSE Pg_getJobApplicationsByUserId(userId)

getJobApplicationById(id) ==
  IF backend = "mem" THEN Mem_getJobApplicationById(id) ELSE Pg_getJobApplicationById(id)

createJobApplication(application) ==
  IF backend = "mem" THEN Mem_createJobApplication(application)
                     ELSE Pg_createJobApplication(application)

updateJobApplication(id, update) ==
  IF backend = "mem" THEN Mem_updateJobApplication(id, update)
                     ELSE Pg_updateJobApplication(id, update)

deleteJobApplication(id) ==
  IF backend = "mem" THEN Mem_deleteJobApplication(id) ELSE Pg_deleteJobApplication(id)

\* ----------------------------------------------------------- documents
insertDocumentSchema ==
  [userId |-> Req("number"), name |-> Req("string"), type |-> Req("string"),
   description |-> OptNull("string"), content |-> Req("string"),
   createdAt |-> OptNull("date")]

\* getDocumentsByUserId without the filter on userId
Mem_getDocumentsByUserId_All(userId) ==
  Entries(documents, DOMAIN documents)

Mem_getDocumentsByUserId(userId) ==
  Entries(documents, { id \in DOMAIN documents : documents[id].userId = N(userId) })

Mem_getDocumentById(id) ==
  IF id \in DOMAIN documents THEN Defined(documents[id]) ELSE Undefined

Mem_createDocument(document) ==
  LET id == documentId
      newDocument == Spread(document, [id |-> N(id), usageCount |-> N(0),
                                        createdAt |-> D(now), updatedAt |-> D(now)])
  IN Returned([Tables EXCEPT !.documents = Put(documents, id, newDocument)], newDocument)

Mem_updateDocument(id, update) ==
  IF id \notin DOMAIN documents THEN Thrown
  ELSE LET document == documents[id]
           updatedDocument == Spread(Spread(document, update), [updatedAt |-> D(now)])
       IN Returned([Tables EXCEPT !.documents = Put(documents, id, updatedDocument)],
                   updatedDocument)

Mem_deleteDocument(id) ==
  Returned([Tables EXCEPT !.documents = Remove(documents, id)], <<>>)

\* NOT NULL columns of the documents table
Pg_documentRowOk(row) == row.name # NULL /\ row.type # NULL /\ row.content # NULL

Pg_getDocumentsByUserId(userId) ==
  Entries(documents, { id \in DOMAIN documents : documents[id].userId = N(userId) })

Pg_getDocumentById(id) ==
  IF id \in DOMAIN documents THEN Defined(documents[id]) ELSE Undefined

Pg_createDocument(document) ==
  LET row == [id |-> N(documentId),
              userId |-> Param(document, "userId"),
              name |-> Param(document, "name"),
              type |-> Param(document, "type"),
              description |-> Param(document, "description"),
              content |-> Param(document, "content"),
              usageCount |-> N(0),
              createdAt |-> D(now),
              updatedAt |-> D(now)]
  IN IF Pg_documentRowOk(row)
       THEN Returned([Tables EXCEPT !.documents = Put(documents, documentId, row)], row)
       ELSE Thrown

Pg_documentSetFields == {"name", "type", "description", "content", "usageCount"}

Pg_updateDocument(id, update) ==
  IF id \notin DOMAIN documents THEN Thrown
  ELSE LET old == documents[id]
           row == [f \in DOMAIN old |->
                     IF f = "updatedAt" THEN D(now)
                     ELSE IF f \in Pg_documentSetFields /\ Has(update, f) THEN update[f]
                     ELSE old[f]]
       IN IF Pg_documentRowOk(row)
            THEN Returned([Tables EXCEPT !.documents = Put(documents, id, row)], row)
            ELSE Thrown

Pg_deleteDocument(id) ==
  Returned([Tables EXCEPT !.documents = Remove(documents, id)], <<>>)

getDocumentsByUserId(userId) ==
  IF backend = "mem" THEN Mem_getDocumentsByUserId(userId) ELSE Pg_getDocumentsByUserId(userId)

getDocumentById(id) ==
  IF backend = "mem" THEN Mem_getDocumentById(id) ELSE Pg_getDocumentById(id)

createDocument(document) ==
  IF backend = "mem" THEN Mem_createDocument(document) ELSE Pg_createDocument(document)

updateDocument(id, update) ==
  IF backend = "mem" THEN Mem_updateDocument(id, update) ELSE Pg_updateDocument(id, update)

deleteDocument(id) ==
  IF backend = "mem" THEN Mem_deleteDocument(id) ELSE Pg_deleteDocument(id)

\* ---------------------------------------------------------- interviews
insertInterviewSchema ==
  [jobApplicationId |-> Req("number"), userId |-> Req("number"),
   title |-> Req("string"), date |-> Req("date"), notes |-> OptNull("string"),
   completed |-> OptNull("boolean"), feedback |-> OptNull("string")]

Mem_getInterviewsByUserId(userId) ==
  Entries(interviews, { id \in DOMAIN interviews : interviews[id].userId = N(userId) })

Mem_getInterviewById(id) ==
  IF id \in DOMAIN interviews THEN Defined(interviews[id]) ELSE Undefined

\* createInterview taking the id from the size of the Map
Mem_createInterview_Reuse(interview) ==
  LET id == Cardinality(DOMAIN interviews) + 1
      newInterview == Spread(interview, [id |-> N(id)])
  IN Returned([Tables EXCEPT !.interviews = Put(interviews, id, newInterview)], newInterview)

Mem_createInterview(interview) ==
  LET id == interviewId
      newInterview == Spread(interview, [id |-> N(id)])
  IN Returned([Tables EXCEPT !.interviews = Put(interviews, id, newInterview)], newInterview)

\* updateInterview storing the payload in the place of the merged record
Mem_updateInterview_Replace(id, update) ==
  IF id \notin DOMAIN interviews THEN Thrown
  ELSE LET interview == interviews[id]
           updatedInterview == Spread([id |-> interview.id], update)
       IN Returned([Tables EXCEPT !.interviews = Put(interviews, id, updatedInterview)],
                   updatedInterview)

Mem_updateInterview(id, update) ==
  IF id \notin DOMAIN interviews THEN Thrown
  ELSE LET interview == interviews[id]
           updatedInterview == Spread(interview, update)
       IN Returned([Tables EXCEPT !.interviews = Put(interviews, id, updatedInterview)],
                   updatedInterview)

Mem_deleteInterview(id) ==
  Returned([Tables EXCEPT !.interviews = Remove(interviews, id)], <<>>)

\* NOT NULL columns of the interviews table, and its foreign key to
\* job_applications(id)
Pg_interviewRowOk(row) ==
  /\ row.title # NULL
  /\ row.date # NULL
  /\ row.jobApplicationId # NULL =>
       \E k \in DOMAIN jobApplications : row.jobApplicationId = N(k)

Pg_getInterviewsByUserId(userId) ==
  Entries(interviews, { id \in DOMAIN interviews : interviews[id].userId = N(userId) })

Pg_getInterviewById(id) ==
  IF id \in DOMAIN interviews THEN Defined(interviews[id]) ELSE Undefined

Pg_createInterview(interview) ==
  LET row == [id |-> N(interviewId),
              userId |-> Param(interview, "userId"),
              jobApplicationId |-> Param(interview, "jobApplicationId"),
              title |-> Param(interview, "title"),
              date |-> ToTimestamp(Param(interview, "date")),
              notes |-> Param(interview, "notes"),
              completed |-> IF Has(interview, "completed") /\ Truthy(interview.completed)
                              THEN interview.completed ELSE B(FALSE),
              feedback |-> Param(interview, "feedback")]
  IN IF Pg_interviewRowOk(row)
       THEN Returned([Tables EXCEPT !.interviews = Put(interviews, interviewId, row)], row)
       ELSE Thrown

Pg_interviewSetFields == {"title", "date", "notes", "completed", "feedback"}

\* with no field to set the statement is `UPDATE interviews SET  WHERE id = $1`,
\* which the server rejects
Pg_updateInterview(id, update) ==
  IF id \notin DOMAIN interviews THEN Thrown
  ELSE LET old == interviews[id]
           row == [f \in DOMAIN old |->
                     IF f \in Pg_interviewSetFields /\ Has(update, f)
                       THEN (IF f = "date" THEN ToTimestamp(update[f]) ELSE update[f])
                     ELSE old[f]]
       IN IF Pg_interviewSetFields \cap DOMAIN update # {} /\ Pg_interviewRowOk(row)
            THEN Returned([Tables EXCEPT !.interviews = Put(interviews, id, row)], row)
            ELSE Thrown

Pg_deleteInterview(id) ==
  Returned([Tables EXCEPT !.interviews = Remove(interviews, id)], <<>>)

getInterviewsByUserId(userId) ==
  IF backend = "mem" THEN Mem_getInterviewsByUserId(userId) ELSE Pg_getInterviewsByUserId(userId)

getInterviewById(id) ==
  IF backend = "mem" THEN Mem_getInterviewById(id) ELSE Pg_getInterviewById(id)

createInterview(interview) ==
  IF backend = "mem" THEN Mem_createInterview(interview) ELSE Pg_createInterview(interview)

updateInterview(id, update) ==
  IF backend = "mem" THEN Mem_updateInterview(id, update) ELSE Pg_updateInterview(id, update)

deleteInterview(id) ==
  IF backend = "mem" THEN Mem_deleteInterview(id) ELSE Pg_deleteInterview(id)

\* ------------------------------------------------------------- routes
Message(m) == [message |-> S(m)]

\* what a handler leaves behind: the response (status code and JSON body),
\* whether a storage call threw, the storage calls it made, the collections
\* and the id counters after it
Out(code, json, threw, calls, tables, counters) ==
  [code |-> code, json |-> json, threw |-> threw, calls |-> calls,
   tables |-> tables, counters |-> counters]

\* a middleware that calls next() whatever the session
isAuthenticated_Always(req) == TRUE

\* req.isAuthenticated()
isAuthenticated(req) == req.auth

\* the isAuthenticated middleware in front of a handler
Guarded(req, out) ==
  IF isAuthenticated(req) THEN out
  ELSE Out(401, Message("Unauthorized"), FALSE, <<>>, Tables, Counters)

\* handleZodError: 400 for a ZodError, 500 for anything else
handleZodError(isZodError) ==
  IF isZodError THEN 400 ELSE 500

\* GET /api/applications
GetApplications(req) ==
  Out(200, [list |-> getJobApplicationsByUserId(req.user)], FALSE,
      <<"getJobApplicationsByUserId">>, Tables, Counters)

\* POST /api/applications with the spread written { userId, ...req.body }
PostApplications_BodyWins(req, body) ==
  LET input == Spread([userId |-> N(req.user)], body)
  IN IF ~ZodOk(insertJobApplicationSchema, input)
       THEN Out(handleZodError(TRUE), Message("Validation error"), FALSE, <<>>,
                Tables, Counters)
       ELSE LET r == createJobApplication(ZodData(insertJobApplicationSchema, input))
                counters == [Counters EXCEPT !.jobApplicationId = @ + 1]
            IN IF r.threw
                 THEN Out(handleZodError(FALSE), Message("Internal server error"), TRUE,
                          <<"createJobApplication">>, r.tables, counters)
                 ELSE Out(201, r.value, FALSE, <<"createJobApplication">>, r.tables, counters)

\* POST /api/applications
PostApplications(req, body) ==
  LET input == Spread(body, [userId |-> N(req.user)])
  IN IF ~ZodOk(insertJobApplicationSchema, input)
       THEN Out(handleZodError(TRUE), Message("Validation error"), FALSE, <<>>,
                Tables, Counters)
       ELSE LET r == createJobApplication(ZodData(insertJobApplicationSchema, input))
                counters == [Counters EXCEPT !.jobApplicationId = @ + 1]
            IN IF r.threw
                 THEN Out(handleZodError(FALSE), Message("Internal server error"), TRUE,
                          <<"createJobApplication">>, r.tables, counters)
                 ELSE Out(201, r.value, FALSE, <<"createJobApplication">>, r.tables, counters)

\* PATCH /api/applications/:id with one combined check,
\* `if (!application || application.userId !== req.user!.id) return 403`
PatchApplication_OneCheck(req, id, body) ==
  LET application == getJobApplicationById(id)
  IN IF application = Undefined \/ application[1].userId # N(req.user)
       THEN Out(403, Message("Forbidden"), FALSE,
                <<"getJobApplicationById">>, Tables, Counters)
     ELSE LET r == updateJobApplication(id, body)
              calls == <<"getJobApplicationById", "updateJobApplication">>
          IN IF r.threw
               THEN Out(500, Message("Failed to update application"), TRUE, calls,
                        r.tables, Counters)
               ELSE Out(200, r.value, FALSE, calls, r.tables, Counters)

\* PATCH /api/applications/:id that refuses to move an application out of
\* offer or rejected
PatchApplication_Progression(req, id, body) ==
  LET application == getJobApplicationById(id)
  IN IF application = Undefined
       THEN Out(404, Message("Application not found"), FALSE,
                <<"getJobApplicationById">>, Tables, Counters)
     ELSE IF application[1].userId # N(req.user)
       THEN Out(403, Message("Forbidden"), FALSE,
                <<"getJobApplicationById">>, Tables, Counters)
     ELSE IF /\ Has(body, "status") /\ Has(application[1], "status")
             /\ application[1].status \in {S("offer"), S("rejected")}
             /\ body.status # application[1].status
       THEN Out(400, Message("Validation error"), FALSE,
                <<"getJobApplicationById">>, Tables, Counters)
     ELSE LET r == updateJobApplication(id, body)
              calls == <<"getJobApplicationById", "updateJobApplication">>
          IN IF r.threw
               THEN Out(500, Message("Failed to update application"), TRUE, calls,
                        r.tables, Counters)
               ELSE Out(200, r.value, FALSE, calls, r.tables, Counters)

\* PATCH /api/applications/:id
PatchApplication(req, id, body) ==
  LET application == getJobApplicationById(id)
  IN IF application = Undefined
       THEN Out(404, Message("Application not found"), FALSE,
                <<"getJobApplicationById">>, Tables, Counters)
     ELSE IF application[1].userId # N(req.user)
       THEN Out(403, Message("Forbidden"), FALSE,
                <<"getJobApplicationById">>, Tables, Counters)
     ELSE LET r == updateJobApplication(id, body)
              calls == <<"getJobApplicationById", "updateJobApplication">>
          IN IF r.threw
               THEN Out(500, Message("Failed to update application"), TRUE, calls,
                        r.tables, Counters)
               ELSE Out(200, r.value, FALSE, calls, r.tables, Counters)

\* DELETE /api/applications/:id that answers 204 without the storage call
DeleteApplication_NoDelete(req, id) ==
  LET application == getJobApplicationById(id)
  IN IF application = Undefined
       THEN Out(404, Message("Application not found"), FALSE,
                <<"getJobApplicationById">>, Tables, Counters)
     ELSE IF application[1].userId # N(req.user)
       THEN Out(403, Message("Forbidden"), FALSE,
                <<"getJobApplicationById">>, Tables, Counters)
     ELSE Out(204, <<>>, FALSE, <<"getJobApplicationById">>, Tables, Counters)

\* DELETE /api/applications/:id
DeleteApplication(req, id) ==
  LET application == getJobApplicationById(id)
  IN IF application = Undefined
       THEN Out(404, Message("Application not found"), FALSE,
                <<"getJobApplicationById">>, Tables, Counters)
     ELSE IF application[1].userId # N(req.user)
       THEN Out(403, Message("Forbidden"), FALSE,
                <<"getJobApplicationById">>, Tables, Counters)
     ELSE LET r == deleteJobApplication(id)
              calls == <<"getJobApplicationById", "deleteJobApplication">>
          IN IF r.threw
               THEN Out(500, Message("Failed to delete application"), TRUE, calls,
                        r.tables, Counters)
               ELSE Out(204, <<>>, FALSE, calls, r.tables, Counters)

\* GET /api/documents
GetDocuments(req) ==
  Out(200, [list |-> getDocumentsByUserId(req.user)], FALSE,
      <<"getDocumentsByUserId">>, Tables, Counters)

\* POST /api/documents
PostDocuments(req, body) ==
  LET input == Spread(body, [userId |-> N(req.user)])
  IN IF ~ZodOk(insertDocumentSchema, input)
       THEN Out(handleZodError(TRUE), Message("Validation error"), FALSE, <<>>,
                Tables, Counters)
       ELSE LET r == createDocument(ZodData(insertDocumentSchema, input))
                counters == [Counters EXCEPT !.documentId = @ + 1]
            IN IF r.threw
                 THEN Out(handleZodError(FALSE), Message("Internal server error"), TRUE,
                          <<"createDocument">>, r.tables, counters)
                 ELSE Out(201, r.value, FALSE, <<"createDocument">>, r.tables, counters)

\* PATCH /api/documents/:id
PatchDocument(req, id, body) ==
  LET document == getDocumentById(id)
  IN IF document = Undefined
       THEN Out(404, Message("Document not found"), FALSE,
                <<"getDocumentById">>, Tables, Counters)
     ELSE IF document[1].userId # N(req.user)
       THEN Out(403, Message("Forbidden"), FALSE,
                <<"getDocumentById">>, Tables, Counters)
     ELSE LET r == updateDocument(id, body)
              calls == <<"getDocumentById", "updateDocument">>
          IN IF r.threw
               THEN Out(500, Message("Failed to update document"), TRUE, calls,
                        r.tables, Counters)
               ELSE Out(200, r.value, FALSE, calls, r.tables, Counters)

\* DELETE /api/documents/:id with the delete issued ahead of the ownership check
DeleteDocument_DeleteFirst(req, id) ==
  LET document == getDocumentById(id)
  IN IF document = Undefined
       THEN Out(404, Message("Document not found"), FALSE,
                <<"getDocumentById">>, Tables, Counters)
     ELSE LET r == deleteDocument(id)
              calls == <<"getDocumentById", "deleteDocument">>
          IN IF document[1].userId # N(req.user)
               THEN Out(403, Message("Forbidden"), FALSE, calls, r.tables, Counters)
               ELSE Out(204, <<>>, FALSE, calls, r.tables, Counters)

\* DELETE /api/documents/:id
DeleteDocument(req, id) ==
  LET document == getDocumentById(id)
  IN IF document = Undefined
       THEN Out(404, Message("Document not found"), FALSE,
                <<"getDocumentById">>, Tables, Counters)
     ELSE IF document[1].userId # N(req.user)
       THEN Out(403, Message("Forbidden"), FALSE,
                <<"getDocumentById">>, Tables, Counters)
     ELSE LET r == deleteDocument(id)
              calls == <<"getDocumentById", "deleteDocument">>
          IN IF r.threw
               THEN Out(500, Message("Failed to delete document"), TRUE, calls,
                        r.tables, Counters)
               ELSE Out(204, <<>>, FALSE, calls, r.tables, Counters)

\* GET /api/interviews
GetInterviews(req) ==
  Out(200, [list |-> getInterviewsByUserId(req.user)], FALSE,
      <<"getInterviewsByUserId">>, Tables, Counters)

\* POST /api/interviews
PostInterviews(req, body) ==
  LET input == Spread(body, [userId |-> N(req.user)])
  IN IF ~ZodOk(insertInterviewSchema, input)
       THEN Out(handleZodError(TRUE), Message("Validation error"), FALSE, <<>>,
                Tables, Counters)
       ELSE LET r == createInterview(ZodData(insertInterviewSchema, input))
                counters == [Counters EXCEPT !.interviewId = @ + 1]
            IN IF r.threw
                 THEN Out(handleZodError(FALSE), Message("Internal server error"), TRUE,
                          <<"createInterview">>, r.tables, counters)
                 ELSE Out(201, r.value, FALSE, <<"createInterview">>, r.tables, counters)

\* PATCH /api/interviews/:id
PatchInterview(req, id, body) ==
  LET interview == getInterviewById(id)
  IN IF interview = Undefined
       THEN Out(404, Message("Interview not found"), FALSE,
                <<"getInterviewById">>, Tables, Counters)
     ELSE IF interview[1].userId # N(req.user)
       THEN Out(403, Message("Forbidden"), FALSE,
                <<"getInterviewById">>, Tables, Counters)
     ELSE LET r == updateInterview(id, body)
              calls == <<"getInterviewById", "updateInterview">>
          IN IF r.threw
               THEN Out(500, Message("Failed to update interview"), TRUE, calls,
                        r.tables, Counters)
               ELSE Out(200, r.value, FALSE, calls, r.tables, Counters)

\* DELETE /api/interviews/:id
DeleteInterview(req, id) ==
  LET interview == getInterviewById(id)
  IN IF interview = Undefined
       THEN Out(404, Message("Interview not found"), FALSE,
                <<"getInterviewById">>, Tables, Counters)
     ELSE IF interview[1].userId # N(req.user)
       THEN Out(403, Message("Forbidden"), FALSE,
                <<"getInterviewById">>, Tables, Counters)
     ELSE LET r == deleteInterview(id)
              calls == <<"getInterviewById", "deleteInterview">>
          IN IF r.threw
               THEN Out(500, Message("Failed to delete interview"), TRUE, calls,
                        r.tables, Counters)
               ELSE Out(204, <<>>, FALSE, calls, r.tables, Counters)

\* the count without the filter on status
CountStatus_NoFilter(applications, status) == Len(applications)

\* applications.filter(app => app.status === status).length
CountStatus(applications, status) ==
  Cardinality({ i \in 1 .. Len(applications) :
                  Has(applications[i], "status") /\ applications[i].status = S(status) })

\* A JavaScript number that is not an integer: an IEEE 754 double with the
\* 53-bit significand hi * 2^36 + mid * 2^18 + lo (three limbs, so that every
\* intermediate value fits an int) and the value significand / 2^(52 + exp).
Limb == 2^18

Double(hi, mid, lo, exp) == [hi |-> hi, mid |-> mid, lo |-> lo, exp |-> exp]

\* a carry out of lo goes into mid, and one out of mid into hi
Carry(hi, mid, lo, exp) ==
  LET mid1 == mid + lo \div Limb
  IN Double(hi + mid1 \div Limb, mid1 % Limb, lo % Limb, exp)

\* the least e with k * 2^e >= n
RECURSIVE Normalize(_, _, _)
Normalize(k, n, e) == IF k * 2^e >= n THEN e ELSE Normalize(k, n, e + 1)

\* k / n for integers 0 <= k <= n, n > 0: the quotient rounded to the nearest
\* double, a tie to the even significand (long division, limb by limb)
Divide(k, n) ==
  IF k = 0 THEN Double(0, 0, 0, 0)
  ELSE LET e == Normalize(k, n, 0)
           r0 == k * 2^e - n
           hi == 2^16 + (r0 * 2^16) \div n
           r1 == (r0 * 2^16) % n
           mid == (r1 * Limb) \div n
           r2 == (r1 * Limb) % n
           lo == (r2 * Limb) \div n
           r3 == (r2 * Limb) % n
           up == 2 * r3 > n \/ (2 * r3 = n /\ lo % 2 = 1)
       IN Carry(hi, mid, IF up THEN lo + 1 ELSE lo, e)

\* x * 100 for a double x in [0, 1]: the product rounded to the nearest
\* double; its top limb may exceed 2^18, the low d bits are zero
Times100(x) ==
  LET lo == 100 * x.lo
      mid == 100 * x.mid + lo \div Limb
      top == 100 * x.hi + mid \div Limb
      d == IF top < 2^23 THEN 6 ELSE 7
      low == (lo % Limb) % 2^d
      up == low > 2^(d - 1) \/ (low = 2^(d - 1) /\ ((lo % Limb) \div 2^d) % 2 = 1)
  IN Carry(top, mid % Limb, (lo % Limb) - low + (IF up THEN 2^d ELSE 0), x.exp)

\* Math.round(y) for a double y >= 0: floor(y + 1/2), exactly
MathRound(y) == (y.hi + 2^(15 + y.exp)) \div 2^(16 + y.exp)

\* the date of the first application of the list
MathMin_First(dates) == dates[1]

\* Math.min(...dates)
MathMin(dates) ==
  CHOOSE d \in { dates[i] : i \in DOMAIN dates } :
    \A i \in DOMAIN dates : d <= dates[i]

\* GET /api/stats
GetStats(req) ==
  LET applications == getJobApplicationsByUserId(req.user)
      interviewList == getInterviewsByUserId(req.user)
      totalApplications == Len(applications)
      interviewsScheduled == Len(interviewList)
      applicationsByStatus ==
        [applied |-> CountStatus(applications, "applied"),
         interview |-> CountStatus(applications, "interview"),
         offer |-> CountStatus(applications, "offer"),
         rejected |-> CountStatus(applications, "rejected")]
      responseRate ==
        IF totalApplications > 0
          THEN MathRound(Times100(
                 Divide(applicationsByStatus.interview + applicationsByStatus.offer,
                        totalApplications)))
          ELSE 0
      dates == [i \in 1 .. Len(applications) |-> GetTime(applications[i].appliedDate)]
      earliestDate == MathMin(dates)
      daysInSearch ==
        IF Len(applications) > 0 THEN (now - earliestDate) \div TicksPerDay ELSE 0
  IN Out(200,
         [totalApplications |-> totalApplications,
          interviewsScheduled |-> interviewsScheduled,
          responseRate |-> responseRate,
          daysInSearch |-> daysInSearch,
          applicationsByStatus |-> applicationsByStatus],
         FALSE, <<"getJobApplicationsByUserId", "getInterviewsByUserId">>,
         Tables, Counters)

\* ------------------------------------------------------------- requests
\* a request comes with a session of one of the users, or with none
Anonymous == [auth |-> FALSE, user |-> 0]
Sessions == { [auth |-> TRUE, user |-> u] : u \in Users } \cup { Anonymous }

\* the bodies sent with a session, and the one body sent without
Sent(req, bodies, body) == IF req = Anonymous THEN { body } ELSE bodies

ValidApplication == [company |-> S("Acme"), position |-> S("Engineer")]

\* bodies of POST /api/applications
ApplicationPostBodies ==
  { ValidApplication }
  \cup { Spread(ValidApplication, [status |-> S(st)]) : st \in ValidStatus \cup {"bogus"} }
  \cup { [position |-> S("Engineer")],
         Spread(ValidApplication, [appliedDate |-> ISO(-100)]),
         Spread(ValidApplication, [id |-> N(9), userId |-> N(2), updatedAt |-> ISO(100)]) }

\* bodies of PATCH /api/applications/:id
ApplicationPatchBodies ==
  { <<>> }
  \cup { [status |-> S(st)] : st \in ValidStatus \cup {"bogus"} }
  \cup { [id |-> N(9), userId |-> N(2), updatedAt |-> ISO(100)] }

ValidDocument == [name |-> S("cv"), type |-> S("resume"), content |-> S("text")]

\* bodies of POST /api/documents
DocumentPostBodies ==
  { ValidDocument,
    [name |-> S("cv"), type |-> S("resume")],
    Spread(ValidDocument, [id |-> N(9), userId |-> N(2), usageCount |-> N(5),
                           updatedAt |-> ISO(100)]) }

\* bodies of PATCH /api/documents/:id
DocumentPatchBodies ==
  { <<>>,
    [content |-> S("text2"), id |-> N(9), userId |-> N(2), usageCount |-> N(5),
     updatedAt |-> ISO(100)] }

\* bodies of POST /api/interviews: JSON carries a date as text
ValidInterview == [jobApplicationId |-> N(1), title |-> S("Screen"), date |-> ISO(1)]

InterviewPostBodies ==
  { ValidInterview, [jobApplicationId |-> N(1), date |-> ISO(1)] }

\* bodies of PATCH /api/interviews/:id
InterviewPatchBodies == { <<>>, [completed |-> B(TRUE)] }

\* ------------------------------------------------------------- actions
\* one request handled from start to end
Handle(op, kind, req, id, body, out) ==
  /\ Idle
  /\ before' = [tables |-> Tables, counters |-> Counters]
  /\ jobApplications' = out.tables.jobApplications
  /\ documents' = out.tables.documents
  /\ interviews' = out.tables.interviews
  /\ jobApplicationId' = out.counters.jobApplicationId
  /\ documentId' = out.counters.documentId
  /\ interviewId' = out.counters.interviewId
  /\ last' = [layer |-> "api", op |-> op, kind |-> kind, auth |-> req.auth,
              user |-> req.user, id |-> id, body |-> body, code |-> out.code,
              json |-> out.json, threw |-> out.threw, calls |-> out.calls]
  /\ UNCHANGED <<backend, now, inflight>>

ApiGetApplications ==
  \E req \in Sessions :
    Handle("GET", "applications", req, 0, <<>>, Guarded(req, GetApplications(req)))

ApiPostApplications ==
  /\ Created < MaxCreates
  /\ \E req \in Sessions : \E body \in Sent(req, ApplicationPostBodies, ValidApplication) :
       Handle("POST", "applications", req, 0, body, Guarded(req, PostApplications(req, body)))

ApiPatchApplication ==
  \E req \in Sessions, id \in Ids : \E body \in Sent(req, ApplicationPatchBodies, [status |-> S("offer")]) :
    Handle("PATCH", "applications", req, id, body, Guarded(req, PatchApplication(req, id, body)))

ApiDeleteApplication ==
  \E req \in Sessions, id \in Ids :
    Handle("DELETE", "applications", req, id, <<>>, Guarded(req, DeleteApplication(req, id)))

ApiGetDocuments ==
  \E req \in Sessions :
    Handle("GET", "documents", req, 0, <<>>, Guarded(req, GetDocuments(req)))

ApiPostDocuments ==
  /\ Created < MaxCreates
  /\ \E req \in Sessions : \E body \in Sent(req, DocumentPostBodies, ValidDocument) :
       Handle("POST", "documents", req, 0, body, Guarded(req, PostDocuments(req, body)))

ApiPatchDocument ==
  \E req \in Sessions, id \in Ids : \E body \in Sent(req, DocumentPatchBodies, [content |-> S("text2")]) :
    Handle("PATCH", "documents", req, id, body, Guarded(req, PatchDocument(req, id, body)))

ApiDeleteDocument ==
  \E req \in Sessions, id \in Ids :
    Handle("DELETE", "documents", req, id, <<>>, Guarded(req, DeleteDocument(req, id)))

ApiGetInterviews ==
  \E req \in Sessions :
    Handle("GET", "interviews", req, 0, <<>>, Guarded(req, GetInterviews(req)))

ApiPostInterviews ==
  /\ Created < MaxCreates
  /\ \E req \in Sessions : \E body \in Sent(req, InterviewPostBodies, ValidInterview) :
       Handle("POST", "interviews", req, 0, body, Guarded(req, PostInterviews(req, body)))

ApiPatchInterview ==
  \E req \in Sessions, id \in Ids : \E body \in Sent(req, InterviewPatchBodies, [completed |-> B(TRUE)]) :
    Handle("PATCH", "interviews", req, id, body, Guarded(req, PatchInterview(req, id, body)))

ApiDeleteInterview ==
  \E req \in Sessions, id \in Ids :
    Handle("DELETE", "interviews", req, id, <<>>, Guarded(req, DeleteInterview(req, id)))

ApiGetStats ==
  \E req \in Sessions :
    Handle("GET", "stats", req, 0, <<>>, Guarded(req, GetStats(req)))

\* the client receives the response; it sends its next request after that
Deliver ==
  /\ ~Idle
  /\ last' = NoCall
  /\ before' = NoSnapshot
  /\ UNCHANGED <<backend, now, jobApplications, documents, interviews,
                 jobApplicationId, documentId, interviewId, inflight>>

Next ==
  \/ Tick
  \/ Deliver
  \/ ApiGetApplications \/ ApiPostApplications \/ ApiPatchApplication \/ ApiDeleteApplication
  \/ ApiGetDocuments \/ ApiPostDocuments \/ ApiPatchDocument \/ ApiDeleteDocument
  \/ ApiGetInterviews \/ ApiPostInterviews \/ ApiPatchInterview \/ ApiDeleteInterview
  \/ ApiGetStats

Spec == Init /\ [][Next]_vars

\* ------------------------------------------------- the store on its own
\* IStorage called directly, as a caller written in TypeScript may call it:
\* the arguments have the declared types (InsertJobApplication, Partial<..>).
StoreInsertApplications ==
  { Spread(ValidApplication, [userId |-> N(u)]) : u \in Users }
  \cup { Spread(ValidApplication, [userId |-> N(1), status |-> S(st)]) : st \in ValidStatus }
  \cup { Spread(ValidApplication,
                 [userId |-> N(1), location |-> S("Pune"), salary |-> S("10"),
                  jobType |-> S("full-time"), workMode |-> S("remote"),
                  description |-> S("d"), notes |-> S("n0"), url |-> S("u"),
                  contactInfo |-> S("c"), resumeId |-> N(1), coverId |-> N(1)]) }

StoreUpdateApplications ==
  { <<>>, [status |-> S("offer")], [notes |-> S("n"), updatedAt |-> D(100)],
    [status |-> S("interview")], [resumeId |-> N(1), coverId |-> N(1)] }

StoreInsertDocuments ==
  { Spread(ValidDocument, [userId |-> N(u)]) : u \in Users }

StoreUpdateDocuments == { <<>>, [content |-> S("text2"), updatedAt |-> D(100)] }

StoreInsertInterviews ==
  { [userId |-> N(1), jobApplicationId |-> N(k), title |-> S("Screen"), date |-> D(1)] :
      k \in 1 .. 2 }
  \cup { [userId |-> N(1), jobApplicationId |-> N(1), title |-> S("Screen"),
          date |-> D(1), completed |-> B(TRUE)] }

StoreUpdateInterviews == { <<>>, [completed |-> B(TRUE)] }

\* one storage call from start to end
Call(op, kind, id, arg, r, counters) ==
  /\ Idle
  /\ before' = [tables |-> Tables, counters |-> Counters]
  /\ jobApplications' = r.tables.jobApplications
  /\ documents' = r.tables.documents
  /\ interviews' = r.tables.interviews
  /\ jobApplicationId' = counters.jobApplicationId
  /\ documentId' = counters.documentId
  /\ interviewId' = counters.interviewId
  /\ last' = [layer |-> "store", op |-> op, kind |-> kind, auth |-> FALSE,
              user |-> 0, id |-> id, body |-> arg, code |-> 0,
              json |-> r.value, threw |-> r.threw, calls |-> <<op>>]
  /\ UNCHANGED <<backend, now, inflight>>

StoreCreateJobApplication ==
  /\ Created < MaxCreates
  /\ \E application \in StoreInsertApplications :
       Call("createJobApplication", "applications", 0, application,
            createJobApplication(application),
            [Counters EXCEPT !.jobApplicationId = @ + 1])

StoreUpdateJobApplication ==
  \E id \in Ids, update \in StoreUpdateApplications :
    Call("updateJobApplication", "applications", id, update,
         updateJobApplication(id, update), Counters)

StoreDeleteJobApplication ==
  \E id \in Ids :
    Call("deleteJobApplication", "applications", id, <<>>,
         deleteJobApplication(id), Counters)

StoreCreateDocument ==
  /\ Created < MaxCreates
  /\ \E document \in StoreInsertDocuments :
       Call("createDocument", "documents", 0, document, createDocument(document),
            [Counters EXCEPT !.documentId = @ + 1])

StoreUpdateDocument ==
  \E id \in Ids, update \in StoreUpdateDocuments :
    Call("updateDocument", "documents", id, update, updateDocument(id, update), Counters)

StoreDeleteDocument ==
  \E id \in Ids :
    Call("deleteDocument", "documents", id, <<>>, deleteDocument(id), Counters)

StoreCreateInterview ==
  /\ Created < MaxCreates
  /\ \E interview \in StoreInsertInterviews :
       Call("createInterview", "interviews", 0, interview, createInterview(interview),
            [Counters EXCEPT !.interviewId = @ + 1])

StoreUpdateInterview ==
  \E id \in Ids, update \in StoreUpdateInterviews :
    Call("updateInterview", "interviews", id, update, updateInterview(id, update), Counters)

StoreDeleteInterview ==
  \E id \in Ids :
    Call("deleteInterview", "interviews", id, <<>>, deleteInterview(id), Counters)

NextStore ==
  \/ Tick
  \/ Deliver
  \/ StoreCreateJobApplication \/ StoreUpdateJobApplication \/ StoreDeleteJobApplication
  \/ StoreCreateDocument \/ StoreUpdateDocument \/ StoreDeleteDocument
  \/ StoreCreateInterview \/ StoreUpdateInterview \/ StoreDeleteInterview

SpecStore == Init /\ [][NextStore]_vars

\* ------------------------------------------------ the API over a seeded store
\* The API next to a caller of IStorage that creates interviews directly (no
\* request body reaches createInterview through POST /api/interviews, whose
\* schema wants a Date where JSON has text).
NextSeeded == Next \/ StoreCreateInterview

SpecSeeded == Init /\ [][NextSeeded]_vars

\* ---------------------------------------------- clients that set appliedDate
\* bodies of PATCH /api/applications/:id that carry an appliedDate: the
\* server's first instant, and one that the server clock does not reach
DatePatchBodies == { [appliedDate |-> ISO(0)], [appliedDate |-> ISO(100)] }

ApiPatchAppliedDate ==
  \E req \in Sessions, id \in Ids : \E body \in Sent(req, DatePatchBodies, <<>>) :
    Handle("PATCH", "applications", req, id, body,
           Guarded(req, PatchApplication(req, id, body)))

NextDates ==
  \/ Tick
  \/ Deliver
  \/ ApiPostApplications
  \/ ApiPatchAppliedDate
  \/ ApiGetStats

SpecDates == Init /\ [][NextDates]_vars

\* ------------------------------------------ statistics over a populated store
\* A job application as the stores hold it after a POST whose body gave
\* company, position, status and null for resumeId and coverId, and a PATCH
\* that set appliedDate.
StoredApplication(id, userId, status, appliedDate, updatedAt) ==
  [id |-> N(id), userId |-> N(userId),
   company |-> S("Acme"), position |-> S("Engineer"),
   location |-> NULL, salary |-> NULL, jobType |-> NULL, workMode |-> NULL,
   description |-> NULL, notes |-> NULL, url |-> NULL, status |-> S(status),
   resumeId |-> NULL, coverId |-> NULL, contactInfo |-> NULL,
   appliedDate |-> D(appliedDate), updatedAt |-> D(updatedAt)]

\* the status of the j-th of a user's applications, given how many there are
\* of each status
StatusAt(counts, j) ==
  IF j <= counts["applied"] THEN "applied"
  ELSE IF j <= counts["applied"] + counts["interview"] THEN "interview"
  ELSE IF j <= counts["applied"] + counts["interview"] + counts["offer"] THEN "offer"
  ELSE "rejected"

Total(counts) ==
  counts["applied"] + counts["interview"] + counts["offer"] + counts["rejected"]

\* n applications of which k are in interview or in offer
CountsOf(n, k) ==
  [st \in ValidStatus |->
     CASE st = "interview" -> (k + 1) \div 2
       [] st = "offer"     -> k \div 2
       [] st = "applied"   -> (n - k + 1) \div 2
       [] st = "rejected"  -> (n - k) \div 2]

\* The job applications of a store in which user 1 owns Total(counts)
\* applications, all applied at `late` but one applied at `early` (the first
\* inserted or the last inserted), and user 2, when `other`, owns the oldest
\* entry of the store, applied at 0.
Populated(counts, late, early, earlyFirst, other, t) ==
  LET n == Total(counts)
      shift == IF other THEN 1 ELSE 0
      e == IF earlyFirst THEN 1 ELSE n
  IN [id \in 1 .. (n + shift) |->
        IF other /\ id = 1
          THEN StoredApplication(1, 2, "applied", 0, t)
          ELSE StoredApplication(id, 1, StatusAt(counts, id - shift),
                                 IF id - shift = e THEN early ELSE late, t)]

InitStats ==
  \E n \in 0 .. MaxApps, t \in 0 .. MaxNow, late \in 0 .. MaxNow, early \in 0 .. MaxNow :
  \E k \in 0 .. n, earlyFirst \in BOOLEAN, other \in BOOLEAN :
  LET counts == CountsOf(n, k) IN
    /\ early <= late /\ late <= t
    /\ n > MaxDated => (early = t /\ t = MaxNow /\ earlyFirst)
    /\ backend \in {"mem", "pg"}
    /\ now = t
    /\ jobApplications = Populated(counts, late, early, earlyFirst, other, t)
    /\ documents = <<>>
    /\ interviews = <<>>
    /\ jobApplicationId = Total(counts) + (IF other THEN 1 ELSE 0) + 1
    /\ documentId = 1
    /\ interviewId = 1
    /\ before = NoSnapshot
    /\ last = NoCall
    /\ inflight = NoRace

NextStats == Tick \/ ApiGetStats \/ Deliver

SpecStats == InitStats /\ [][NextStats]_vars

\* --------------------------------------------- handlers that run interleaved
\* Two requests by user 1 on job application 1 whose handlers interleave at
\* their awaits: the handler's getJobApplicationById, and then the storage
\* call. MemStorage.updateJobApplication has no await inside; in
\* PostgresStorage.updateJobApplication the read and the UPDATE are two awaits.
RacePatchBodies ==
  { [status |-> S("offer")],
    [status |-> S("rejected"), location |-> S("Pune")],
    [location |-> S("Remote")] }

RaceRequests ==
  { [op |-> "PATCH", body |-> b, pc |-> "sent", code |-> 0, seen |-> <<>>] :
      b \in RacePatchBodies }
  \cup { [op |-> "DELETE", body |-> <<>>, pc |-> "sent", code |-> 0, seen |-> <<>>] }

InitRace ==
  /\ backend \in {"mem", "pg"}
  /\ now = 0
  /\ jobApplications = [id \in {1} |-> StoredApplication(1, 1, "applied", 0, 0)]
  /\ documents = <<>>
  /\ interviews = <<>>
  /\ jobApplicationId = 2
  /\ documentId = 1
  /\ interviewId = 1
  /\ before = NoSnapshot
  /\ last = NoCall
  /\ inflight = NoRace

\* both requests reach the server
RaceSend ==
  /\ inflight = NoRace
  /\ \E r1 \in RaceRequests, r2 \in RaceRequests :
       inflight' = [reqs |-> <<r1, r2>>, steps |-> <<>>]
  /\ UNCHANGED <<backend, now, jobApplications, documents, interviews,
                 jobApplicationId, documentId, interviewId, before, last>>

\* request p moves on by one step
RaceStep(p, step, req, tables) ==
  /\ inflight' = [reqs |-> [inflight.reqs EXCEPT ![p] = req],
                  steps |-> Append(inflight.steps, <<p, step>>)]
  /\ jobApplications' = tables.jobApplications
  /\ documents' = tables.documents
  /\ interviews' = tables.interviews
  /\ UNCHANGED <<backend, now, jobApplicationId, documentId, interviewId, before, last>>

\* the handler's lookup and its 404 / 403 answers
RaceCheck(p) ==
  /\ inflight # NoRace
  /\ inflight.reqs[p].pc = "sent"
  /\ LET req == inflight.reqs[p]
         application == getJobApplicationById(1)
     IN IF application = Undefined
          THEN RaceStep(p, "check", [req EXCEPT !.pc = "done", !.code = 404], Tables)
        ELSE IF application[1].userId # N(1)
          THEN RaceStep(p, "check", [req EXCEPT !.pc = "done", !.code = 403], Tables)
        ELSE RaceStep(p, "check", [req EXCEPT !.pc = "checked", !.seen = application[1]],
                      Tables)

\* the read at the start of PostgresStorage.updateJobApplication
RaceRead(p) ==
  /\ inflight # NoRace
  /\ backend = "pg"
  /\ inflight.reqs[p].pc = "checked" /\ inflight.reqs[p].op = "PATCH"
  /\ LET req == inflight.reqs[p]
     IN IF Pg_getJobApplicationById(1) = Undefined
          THEN RaceStep(p, "read", [req EXCEPT !.pc = "done", !.code = 500], Tables)
          ELSE RaceStep(p, "read", [req EXCEPT !.pc = "read"], Tables)

\* the update call of the PATCH handler that answers 409 when the record is
\* no longer the one the handler looked up
PatchWrite_Versioned(req) ==
  IF getJobApplicationById(1) # Defined(req.seen)
    THEN [code |-> 409, tables |-> Tables]
    ELSE LET r == updateJobApplication(1, req.body)
         IN [code |-> IF r.threw THEN 500 ELSE 200, tables |-> r.tables]

\* the update call of the PATCH handler and its answer: 200 with the
\* entity, or 500 from the catch block
PatchWrite(req) ==
  LET r == updateJobApplication(1, req.body)
  IN [code |-> IF r.threw THEN 500 ELSE 200, tables |-> r.tables]

\* the write of a PATCH: MemStorage.updateJobApplication as a whole, or the
\* UPDATE ... RETURNING of PostgresStorage.updateJobApplication (no row
\* returned makes row.id throw)
RaceWrite(p) ==
  /\ inflight # NoRace
  /\ inflight.reqs[p].op = "PATCH"
  /\ inflight.reqs[p].pc = (IF backend = "pg" THEN "read" ELSE "checked")
  /\ LET req == inflight.reqs[p]
         out == PatchWrite(req)
     IN RaceStep(p, "write", [req EXCEPT !.pc = "done", !.code = out.code], out.tables)

\* the storage call of the DELETE handler and its 204
RaceDelete(p) ==
  /\ inflight # NoRace
  /\ inflight.reqs[p].op = "DELETE"
  /\ inflight.reqs[p].pc = "checked"
  /\ LET req == inflight.reqs[p]
         r == deleteJobApplication(1)
     IN RaceStep(p, "delete", [req EXCEPT !.pc = "done", !.code = 204], r.tables)

\* both requests have been answered
RaceDone ==
  /\ inflight # NoRace
  /\ \A p \in 1 .. 2 : inflight.reqs[p].pc = "done"

\* both responses are with the client; two more requests may follow
RaceDeliver ==
  /\ RaceDone
  /\ inflight' = NoRace
  /\ UNCHANGED <<backend, now, jobApplications, documents, interviews,
                 jobApplicationId, documentId, interviewId, before, last>>

NextRace ==
  \/ Tick
  \/ RaceSend
  \/ \E p \in 1 .. 2 : RaceCheck(p)
  \/ \E p \in 1 .. 2 : RaceRead(p)
  \/ \E p \in 1 .. 2 : RaceWrite(p)
  \/ \E p \in 1 .. 2 : RaceDelete(p)
  \/ RaceDeliver

SpecRace == InitRace /\ [][NextRace]_vars

\* =============================================================== claims
\* the collection of a kind of entity
Rows(kind, tables) ==
  CASE kind = "applications" -> tables.jobApplications
    [] kind = "documents"    -> tables.documents
    [] kind = "interviews"   -> tables.interviews
    [] OTHER                 -> <<>>

\* the call under way is a PATCH or DELETE by id sent with a session
ByIdCall == last.layer = "api" /\ last.auth /\ last.op \in {"PATCH", "DELETE"}

\* the entity the call under way names was stored when the call arrived
TargetStored == last.id \in DOMAIN Rows(last.kind, before.tables)

\* ... and belonged to the caller
TargetOwned == Rows(last.kind, before.tables)[last.id].userId = N(last.user)

\* C1: a PATCH or DELETE by id with a session answers 404 when no entity has
\* that id, whoever asks, and 403 when the entity exists and belongs to
\* somebody else; a missing id is never answered with 403.
C1_NotFoundBeforeForbidden ==
  ByIdCall =>
    /\ ~TargetStored => last.code = 404
    /\ (TargetStored /\ ~TargetOwned) => last.code = 403

\* a user who owns nothing asks for an id that does not exist, while another
\* user's application is stored, and is answered 404
C1_Witness ==
  /\ ByIdCall /\ last.kind = "applications" /\ last.op = "PATCH"
  /\ ~TargetStored /\ last.code = 404
  /\ before.tables.jobApplications # <<>>
  /\ \A k \in DOMAIN before.tables.jobApplications :
       before.tables.jobApplications[k].userId # N(last.user)

\* C2: a PATCH or DELETE on an existing entity by a user who does not own it
\* answers 403 and leaves every collection and counter as it was.
C2_ForbiddenChangesNothing ==
  (ByIdCall /\ TargetStored /\ ~TargetOwned) =>
    /\ last.code = 403
    /\ Tables = before.tables
    /\ Counters = before.counters

\* a non-owner's DELETE of a stored document was answered 403
C2_Witness ==
  /\ ByIdCall /\ last.kind = "documents" /\ last.op = "DELETE"
  /\ TargetStored /\ ~TargetOwned /\ last.code = 403
  /\ last.id \in DOMAIN documents

\* the id the next create of a kind assigns
NextId(kind, counters) ==
  CASE kind = "applications" -> counters.jobApplicationId
    [] kind = "documents"    -> counters.documentId
    [] kind = "interviews"   -> counters.interviewId
    [] OTHER                 -> 0

Valid == { S(st) : st \in ValidStatus }

\* C3: a PATCH by the owner that sets the status of an existing application
\* to a value outside applied/interview/offer/rejected answers 400 and
\* leaves the stored record, its status and updatedAt included, unchanged.
C3_InvalidStatusRejected ==
  ( /\ ByIdCall /\ last.op = "PATCH" /\ last.kind = "applications"
    /\ TargetStored /\ TargetOwned
    /\ Has(last.body, "status") /\ last.body.status \notin Valid )
  => /\ last.code = 400
     /\ Tables = before.tables

\* C4: in every reachable state the status of every stored job application
\* is one of applied, interview, offer, rejected.
C4_StoredStatusValid ==
  \A id \in DOMAIN jobApplications :
    Has(jobApplications[id], "status") => jobApplications[id].status \in Valid

\* C5: createJobApplication, in either store, stores and returns status
\* "applied" for a payload without status, and the payload's status when it
\* carries one of the four valid ones.
C5_CreateDefaultsStatus ==
  (last.layer = "store" /\ last.op = "createJobApplication" /\ ~last.threw) =>
    LET id == before.counters.jobApplicationId
        expected == IF Has(last.body, "status") THEN last.body.status ELSE S("applied")
    IN /\ id \in DOMAIN jobApplications
       /\ Has(jobApplications[id], "status") /\ jobApplications[id].status = expected
       /\ Has(last.json, "status") /\ last.json.status = expected

\* C6: every successful create or update of a job application or document
\* leaves the stored and the returned updatedAt at the server's current
\* time, not below the entity's previous updatedAt, and never at the
\* updatedAt the request body carried.
C6_UpdatedAtIsServerTime ==
  ( /\ last.layer = "api" /\ last.kind \in {"applications", "documents"}
    /\ last.op \in {"POST", "PATCH"} /\ last.code \in {200, 201} )
  => LET id == IF last.op = "POST" THEN NextId(last.kind, before.counters) ELSE last.id
         rows == Rows(last.kind, Tables)
     IN /\ id \in DOMAIN rows
        /\ rows[id].updatedAt = D(now)
        /\ last.json.updatedAt = D(now)
        /\ last.op = "PATCH" =>
             GetTime(Rows(last.kind, before.tables)[id].updatedAt) <= GetTime(rows[id].updatedAt)
        /\ Has(last.body, "updatedAt") => rows[id].updatedAt # last.body.updatedAt

\* an owner's PATCH that carried its own updatedAt succeeded after the clock
\* had moved past the application's previous updatedAt
C6_Witness ==
  /\ ByIdCall /\ last.op = "PATCH" /\ last.kind = "applications" /\ last.code = 200
  /\ Has(last.body, "updatedAt")
  /\ GetTime(before.tables.jobApplications[last.id].updatedAt) < now
  /\ jobApplications[last.id].updatedAt = D(now)

\* the storage delete of the call under way, issued once more
DeleteAgain ==
  CASE last.op = "deleteJobApplication" -> deleteJobApplication(last.id)
    [] last.op = "deleteDocument"       -> deleteDocument(last.id)
    [] last.op = "deleteInterview"      -> deleteInterview(last.id)

\* C7: a storage delete never throws; on an id that is not stored it leaves
\* the collections unchanged; issued a second time it leaves the state the
\* first delete produced.
C7_DeleteNeverFails ==
  ( /\ last.layer = "store"
    /\ last.op \in {"deleteJobApplication", "deleteDocument", "deleteInterview"} )
  => /\ ~last.threw
     /\ ~TargetStored => Tables = before.tables
     /\ ~DeleteAgain.threw
     /\ DeleteAgain.tables = Tables

\* deleteJobApplication returned normally for an id that was not among the
\* stored applications
C7_Witness ==
  /\ last.layer = "store" /\ last.op = "deleteJobApplication"
  /\ before.tables.jobApplications # <<>>
  /\ ~TargetStored /\ ~last.threw
  /\ Tables = before.tables

Kinds == {"applications", "documents", "interviews"}

\* an id that was assigned and is no longer stored
Gone(kind, id) ==
  id < NextId(kind, Counters) /\ id \notin DOMAIN Rows(kind, Tables)

\* the owner's DELETE answers 204 and takes exactly the named entity away
\* (with it go only interviews that reference a deleted application)
C8_OwnerDeleteRemoves ==
  (ByIdCall /\ last.op = "DELETE" /\ TargetStored /\ TargetOwned) =>
    /\ last.code = 204
    /\ Rows(last.kind, Tables) = Remove(Rows(last.kind, before.tables), last.id)
    /\ \A kind \in Kinds \ {last.kind} :
         /\ DOMAIN Rows(kind, Tables) \subseteq DOMAIN Rows(kind, before.tables)
         /\ \A i \in DOMAIN Rows(kind, before.tables) :
              \/ /\ i \in DOMAIN Rows(kind, Tables)
                 /\ Rows(kind, Tables)[i] = Rows(kind, before.tables)[i]
              \/ /\ kind = "interviews" /\ last.kind = "applications"
                 /\ Rows(kind, before.tables)[i].jobApplicationId = N(last.id)

\* a PATCH or DELETE on an id that is gone answers 404, and a list never
\* shows an entity under an id that is gone
C8_GoneIsNotFound ==
  /\ (ByIdCall /\ last.id < NextId(last.kind, before.counters) /\ ~TargetStored) =>
       last.code = 404
  /\ (last.layer = "api" /\ last.auth /\ last.op = "GET" /\ last.kind \in Kinds) =>
       \A i \in 1 .. Len(last.json.list) : \A id \in Ids :
         Gone(last.kind, id) => last.json.list[i].id # N(id)

\* an id that is gone stays gone, whatever request comes
C8_StaysGone ==
  \A kind \in Kinds : \A id \in Ids :
    Gone(kind, id) => Gone(kind, id)'

\* C8: the owner's DELETE of an existing entity answers 204 and removes
\* exactly that entity; from then on every PATCH or DELETE on its id answers
\* 404 and no list shows it again.
C8_DeletedStaysDeleted ==
  /\ [](C8_OwnerDeleteRemoves /\ C8_GoneIsNotFound)
  /\ [][C8_StaysGone]_vars

\* a PATCH by the former owner on the id of an application deleted earlier,
\* answered 404 while another application is stored
C8_Witness ==
  /\ ByIdCall /\ last.op = "PATCH" /\ last.kind = "applications"
  /\ last.id < NextId("applications", before.counters) /\ ~TargetStored
  /\ last.code = 404
  /\ jobApplications # <<>>

\* C9: a request without a session answers 401 and runs no handler: no
\* storage call is made and collections and counters stay as they were.
C9_UnauthorizedRunsNothing ==
  (last.layer = "api" /\ ~last.auth) =>
    /\ last.code = 401
    /\ last.json = Message("Unauthorized")
    /\ last.calls = <<>>
    /\ Tables = before.tables
    /\ Counters = before.counters

\* a DELETE without a session on the id of a stored application, answered 401
C9_Witness ==
  /\ last.layer = "api" /\ ~last.auth /\ last.op = "DELETE"
  /\ last.kind = "applications" /\ last.id \in DOMAIN jobApplications
  /\ last.code = 401

\* the fields the insert schema of a kind requires from the body
RequiredFields(kind) ==
  CASE kind = "applications" -> {"company", "position"}
    [] kind = "documents"    -> {"name", "type", "content"}
    [] kind = "interviews"   -> {"jobApplicationId", "title", "date"}

MissesRequired(kind, body) ==
  \E f \in RequiredFields(kind) : ~Has(body, f) \/ body[f] = NULL

\* C10: an entity created by POST is stored, and returned, with the caller's
\* id as userId whatever userId the body carries; a body that misses a
\* required field answers 400; a POST that does not answer 201 stores nothing.
C10_CreatedForCaller ==
  (last.layer = "api" /\ last.auth /\ last.op = "POST") =>
    LET id == NextId(last.kind, before.counters)
        rows == Rows(last.kind, Tables)
        rowsBefore == Rows(last.kind, before.tables)
    IN /\ MissesRequired(last.kind, last.body) => last.code = 400
       /\ last.code # 201 => Tables = before.tables
       /\ last.code = 201 =>
            /\ id \notin DOMAIN rowsBefore
            /\ rows = Put(rowsBefore, id, rows[id])
            /\ rows[id].userId = N(last.user)
            /\ last.json.userId = N(last.user)
            /\ \A kind \in Kinds \ {last.kind} :
                 Rows(kind, Tables) = Rows(kind, before.tables)

\* a POST whose body names another user as userId was answered 201
C10_Witness ==
  /\ last.layer = "api" /\ last.auth /\ last.op = "POST" /\ last.code = 201
  /\ last.kind = "applications"
  /\ Has(last.body, "userId") /\ last.body.userId # N(last.user)
  /\ jobApplications[NextId("applications", before.counters)].userId = N(last.user)

\* what the storage lists for a user, per kind
ListOf(kind, userId) ==
  CASE kind = "applications" -> getJobApplicationsByUserId(userId)
    [] kind = "documents"    -> getDocumentsByUserId(userId)
    [] kind = "interviews"   -> getInterviewsByUserId(userId)

\* the ids of the stored entities of a kind whose userId is the given user
OwnedIds(kind, userId) ==
  { id \in DOMAIN Rows(kind, Tables) : Rows(kind, Tables)[id].userId = N(userId) }

\* C11: the list of a kind for user U holds exactly the stored entities of
\* that kind whose userId is U, each once: none of another user, none of U
\* missing; and GET list answers 200 with that list for the caller.
C11_ListIsExactlyOwned ==
  /\ \A kind \in Kinds : \A u \in Users :
       LET list == ListOf(kind, u)
           rows == Rows(kind, Tables)
       IN /\ Len(list) = Cardinality(OwnedIds(kind, u))
          /\ \A id \in OwnedIds(kind, u) : \E i \in 1 .. Len(list) : list[i] = rows[id]
          /\ \A i \in 1 .. Len(list) :
               /\ list[i].userId = N(u)
               /\ \E id \in OwnedIds(kind, u) : list[i] = rows[id]
  /\ (last.layer = "api" /\ last.auth /\ last.op = "GET" /\ last.kind \in Kinds) =>
       /\ last.code = 200
       /\ last.json = [list |-> ListOf(last.kind, last.user)]

\* a GET list answered with one document while the other user owns one too
C11_Witness ==
  /\ last.layer = "api" /\ last.auth /\ last.op = "GET" /\ last.kind = "documents"
  /\ last.code = 200
  /\ Len(last.json.list) = 1
  /\ \E id \in DOMAIN documents : documents[id].userId # N(last.user)

\* the call under way is GET /api/stats sent with a session
StatsCall == last.layer = "api" /\ last.auth /\ last.op = "GET" /\ last.kind = "stats"

\* C12: for a caller who owns no job application the stats are
\* totalApplications 0, responseRate 0, daysInSearch 0 and all four counts
\* by status 0, whatever the other users own.
C12_EmptyStats ==
  (StatsCall /\ OwnedIds("applications", last.user) = {}) =>
    /\ last.code = 200
    /\ last.json.totalApplications = 0
    /\ last.json.responseRate = 0
    /\ last.json.daysInSearch = 0
    /\ last.json.applicationsByStatus =
         [applied |-> 0, interview |-> 0, offer |-> 0, rejected |-> 0]

\* stats answered for a caller without applications while another user owns
\* an application in interview
C12_Witness ==
  /\ StatsCall /\ OwnedIds("applications", last.user) = {}
  /\ \E id \in DOMAIN jobApplications :
       /\ jobApplications[id].userId # N(last.user)
       /\ Has(jobApplications[id], "status")
       /\ jobApplications[id].status = S("interview")
  /\ last.json.totalApplications = 0

\* the caller's stored applications that are in interview or in offer
Responded(userId) ==
  { id \in OwnedIds("applications", userId) :
      /\ Has(jobApplications[id], "status")
      /\ jobApplications[id].status \in {S("interview"), S("offer")} }

\* C13: responseRate is 100 * (in interview + in offer) / totalApplications
\* rounded to the nearest integer, a half going up, over the caller's
\* applications; it is 0 when the caller has none.
C13_ResponseRateRounded ==
  StatsCall =>
    LET n == Cardinality(OwnedIds("applications", last.user))
        k == Cardinality(Responded(last.user))
        r == last.json.responseRate
    IN /\ last.json.totalApplications = n
       /\ n = 0 => r = 0
       /\ n > 0 => /\ 2 * r * n <= 200 * k + n
                   /\ 200 * k + n < 2 * (r + 1) * n
       /\ (n = 3 /\ k = 1) => r = 33

\* C14: for a caller with an application, daysInSearch is the whole number
\* of days from the earliest appliedDate among the caller's own applications
\* to now.
C14_DaysFromEarliestOwn ==
  (StatsCall /\ OwnedIds("applications", last.user) # {}) =>
    \E id \in OwnedIds("applications", last.user) :
      LET m == GetTime(jobApplications[id].appliedDate)
      IN /\ \A other \in OwnedIds("applications", last.user) :
              m <= GetTime(jobApplications[other].appliedDate)
         /\ last.json.daysInSearch * TicksPerDay <= now - m
         /\ now - m < (last.json.daysInSearch + 1) * TicksPerDay

\* stats answered one day for a caller whose earliest application was
\* inserted last, in a store whose oldest entry belongs to the other user
C14_Witness ==
  /\ StatsCall /\ last.user = 1
  /\ last.json.daysInSearch = 1
  /\ jobApplications[1].userId = N(2)
  /\ GetTime(jobApplications[1].appliedDate) <= now - 2 * TicksPerDay
  /\ \E id \in OwnedIds("applications", 1) :
       /\ \A other \in OwnedIds("applications", 1) : other <= id
       /\ \A other \in OwnedIds("applications", 1) \ {id} :
            GetTime(jobApplications[id].appliedDate)
              < GetTime(jobApplications[other].appliedDate)
       /\ OwnedIds("applications", 1) # {id}

\* what GET /api/stats answers to user u
StatsOf(u) == GetStats([auth |-> TRUE, user |-> u]).json

\* how many applications of a collection user u owns with a status
CountIn(rows, u, status) ==
  Cardinality({ id \in DOMAIN rows :
                  /\ rows[id].userId = N(u)
                  /\ Has(rows[id], "status")
                  /\ rows[id].status = S(status) })

\* the call under way is a PATCH by the owner with status offer on a stored
\* application whose status was applied
AppliedToOffer ==
  /\ ByIdCall /\ last.op = "PATCH" /\ last.kind = "applications"
  /\ Has(last.body, "status") /\ last.body.status = S("offer")
  /\ TargetStored /\ TargetOwned
  /\ Has(before.tables.jobApplications[last.id], "status")
  /\ before.tables.jobApplications[last.id].status = S("applied")

\* C15: when the owner's PATCH moves an application from applied to offer,
\* the list that follows shows it with status offer and the stats that follow
\* count one more offer and one less applied than the stats before, with the
\* total and the other two counts as they were. (The stats of any state give,
\* per status, the number of the caller's stored applications with it: that
\* is what the stats before the change answered.)
C15_OfferMovesOneCount ==
  /\ \A u \in Users :
       /\ \A st \in ValidStatus :
            StatsOf(u).applicationsByStatus[st] = CountIn(jobApplications, u, st)
       /\ StatsOf(u).totalApplications = Cardinality(OwnedIds("applications", u))
  /\ AppliedToOffer =>
       LET u == last.user
           list == ListOf("applications", u)
           was == before.tables.jobApplications
       IN /\ last.code = 200
          /\ \E i \in 1 .. Len(list) :
               list[i] = jobApplications[last.id] /\ list[i].status = S("offer")
          /\ StatsOf(u).applicationsByStatus.offer = CountIn(was, u, "offer") + 1
          /\ StatsOf(u).applicationsByStatus.applied = CountIn(was, u, "applied") - 1
          /\ StatsOf(u).applicationsByStatus.interview = CountIn(was, u, "interview")
          /\ StatsOf(u).applicationsByStatus.rejected = CountIn(was, u, "rejected")
          /\ StatsOf(u).totalApplications =
               Cardinality({ id \in DOMAIN was : was[id].userId = N(u) })

\* the owner's PATCH to offer on an application that was applied, answered
\* 200, while the owner has a second application
C15_Witness ==
  /\ AppliedToOffer /\ last.code = 200
  /\ jobApplications[last.id].status = S("offer")
  /\ Cardinality(OwnedIds("applications", last.user)) = 2

\* the call under way is a storage create that returned
CreateCall ==
  /\ last.layer = "store" /\ ~last.threw
  /\ last.op \in {"createJobApplication", "createDocument", "createInterview"}

\* C16: the ids a create assigns grow strictly, per kind, and none is used
\* twice: a new entity gets the id the counter of its kind held, which is
\* above every id the kind ever assigned (stored or deleted since), the
\* counter then moves past it, and no call brings back an id below the counter.
C16_IdsNeverReused ==
  /\ \A kind \in Kinds :
       \A id \in DOMAIN Rows(kind, Tables) : id < NextId(kind, Counters)
  /\ ~Idle =>
       \A kind \in Kinds :
         /\ NextId(kind, Counters) >= NextId(kind, before.counters)
         /\ \A id \in DOMAIN Rows(kind, Tables) \ DOMAIN Rows(kind, before.tables) :
              id >= NextId(kind, before.counters)
  /\ CreateCall =>
       LET id == NextId(last.kind, before.counters)
       IN /\ DOMAIN Rows(last.kind, Tables) = DOMAIN Rows(last.kind, before.tables) \cup {id}
          /\ \A old \in DOMAIN Rows(last.kind, before.tables) : old < id
          /\ last.json.id = N(id)
          /\ Rows(last.kind, Tables)[id].id = N(id)
          /\ NextId(last.kind, Counters) > id

\* createInterview gave id 2 after interview 1 had been deleted
C16_Witness ==
  /\ CreateCall /\ last.op = "createInterview"
  /\ before.counters.interviewId = 2
  /\ before.tables.interviews = <<>>
  /\ DOMAIN interviews = {2}

\* the call under way is a storage update that returned
UpdateCall ==
  /\ last.layer = "store" /\ ~last.threw
  /\ last.op \in {"updateJobApplication", "updateDocument", "updateInterview"}

\* the field an update refreshes by itself, for the kinds that have it
Stamped(kind) == IF kind \in {"applications", "documents"} THEN {"updatedAt"} ELSE {}

\* C17: an update of a stored entity changes no field that its payload does
\* not name, but updatedAt for applications and documents; it adds no field
\* the payload does not name; and it leaves every other entity as it was.
C17_UpdateTouchesOnlyPayloadFields ==
  (UpdateCall /\ TargetStored) =>
    LET rowsBefore == Rows(last.kind, before.tables)
        rows == Rows(last.kind, Tables)
        old == rowsBefore[last.id]
    IN /\ DOMAIN rows = DOMAIN rowsBefore
       /\ \A f \in DOMAIN old \ (DOMAIN last.body \cup Stamped(last.kind)) :
            f \in DOMAIN rows[last.id] /\ rows[last.id][f] = old[f]
       /\ DOMAIN rows[last.id] \subseteq DOMAIN old \cup DOMAIN last.body
       /\ \A id \in DOMAIN rows \ {last.id} : rows[id] = rowsBefore[id]
       /\ \A kind \in Kinds \ {last.kind} :
            Rows(kind, Tables) = Rows(kind, before.tables)

\* updateInterview with { completed: true } changed completed on one of two
\* stored interviews
C17_Witness ==
  /\ UpdateCall /\ TargetStored /\ last.op = "updateInterview"
  /\ last.body = [completed |-> B(TRUE)]
  /\ interviews[last.id] # before.tables.interviews[last.id]
  /\ interviews[last.id].title = before.tables.interviews[last.id].title
  /\ Cardinality(DOMAIN interviews) = 2

\* C18: deleting a job application removes every interview that references
\* it, and in every state each stored interview's jobApplicationId is the id
\* of a stored job application.
C18_NoInterviewOutlivesApplication ==
  /\ (last.layer = "store" /\ last.op = "deleteJobApplication") =>
       \A i \in DOMAIN interviews : interviews[i].jobApplicationId # N(last.id)
  /\ \A i \in DOMAIN interviews :
       \E id \in DOMAIN jobApplications : interviews[i].jobApplicationId = N(id)

\* the call under way is a PATCH by the owner with status t on a stored
\* application whose status was s
Relabel(s, t) ==
  /\ ByIdCall /\ last.op = "PATCH" /\ last.kind = "applications"
  /\ TargetStored /\ TargetOwned
  /\ Has(before.tables.jobApplications[last.id], "status")
  /\ before.tables.jobApplications[last.id].status = S(s)
  /\ Has(last.body, "status") /\ last.body.status = S(t)

\* C19: for every pair (s, t) of the four statuses, s = t and moves out of
\* offer or rejected included, the owner's PATCH with status t on an
\* application whose status is s answers 200 and the application has status t.
C19_AnyStatusToAny ==
  \A s \in ValidStatus : \A t \in ValidStatus :
    Relabel(s, t) =>
      /\ last.code = 200
      /\ jobApplications[last.id].status = S(t)
      /\ last.json.status = S(t)

\* an application in offer was put back to applied
C19_Witness ==
  /\ Relabel("offer", "applied") /\ last.code = 200
  /\ jobApplications[last.id].status = S("applied")

\* C20: creating or updating a job application, a move to interview and
\* naming a document as resumeId or coverId included, leaves the documents and
\* the interviews, and their id counters, as they were: no interview appears
\* or goes, no usageCount changes.
C20_ApplicationWritesStayLocal ==
  ( /\ last.layer = "store"
    /\ last.op \in {"createJobApplication", "updateJobApplication"} ) =>
    /\ documents = before.tables.documents
    /\ interviews = before.tables.interviews
    /\ documentId = before.counters.documentId
    /\ interviewId = before.counters.interviewId

\* updateJobApplication named a stored document as resumeId and the document
\* still has usageCount 0
C20_Witness ==
  /\ last.layer = "store" /\ last.op = "updateJobApplication" /\ ~last.threw
  /\ TargetStored
  /\ Has(last.body, "resumeId")
  /\ jobApplications[last.id].resumeId = N(1)
  /\ 1 \in DOMAIN documents
  /\ documents[1].usageCount = N(0)

\* C21: in both stores a created document has usageCount 0, and a created
\* interview whose payload has no completed has completed false.
C21_CreateDefaults ==
  /\ (CreateCall /\ last.op = "createDocument") =>
       LET id == NextId("documents", before.counters)
       IN /\ Has(documents[id], "usageCount") /\ documents[id].usageCount = N(0)
          /\ Has(last.json, "usageCount") /\ last.json.usageCount = N(0)
  /\ (CreateCall /\ last.op = "createInterview" /\ ~Has(last.body, "completed")) =>
       LET id == NextId("interviews", before.counters)
       IN /\ Has(interviews[id], "completed") /\ interviews[id].completed = B(FALSE)
          /\ Has(last.json, "completed") /\ last.json.completed = B(FALSE)

\* C22: a PATCH by the owner on a stored entity answers 200 with the
\* updated entity whatever the body is, an empty body and a body without an
\* updatable field included; it never answers 500.
C22_OwnerPatchAlways200 ==
  (ByIdCall /\ last.op = "PATCH" /\ TargetStored /\ TargetOwned) =>
    /\ last.code = 200
    /\ ~last.threw
    /\ last.json.id = Rows(last.kind, Tables)[last.id].id

\* the request whose store write came last
LastWriter ==
  LET writes == SelectSeq(inflight.steps, LAMBDA st : st[2] = "write")
  IN writes[Len(writes)][1]

\* both requests were PATCHes and both have been answered
BothPatched ==
  /\ RaceDone
  /\ \A p \in 1 .. 2 : inflight.reqs[p].op = "PATCH"
  /\ \A p \in 1 .. 2 : inflight.reqs[p].code # 404

\* C23: two PATCH requests of the owner on one entity, their check and write
\* steps interleaved in any order, are both answered 200, and a field both
\* wrote holds the value of the request whose store write came last; neither
\* is rejected for the other's write.
C23_LastWriteWins ==
  BothPatched =>
    /\ \A p \in 1 .. 2 : inflight.reqs[p].code = 200
    /\ \A f \in DOMAIN inflight.reqs[1].body \cap DOMAIN inflight.reqs[2].body :
         jobApplications[1][f] = inflight.reqs[LastWriter].body[f]

\* request 1 was checked first and wrote last, after request 2 had written
\* another status; the stored status is that of request 1
C23_Witness ==
  /\ BothPatched
  /\ inflight.steps[1] = <<1, "check">>
  /\ LastWriter = 1
  /\ \E i \in 1 .. Len(inflight.steps) : inflight.steps[i] = <<2, "write">>
  /\ inflight.reqs[1].body = [status |-> S("offer")]
  /\ Has(inflight.reqs[2].body, "status")
  /\ inflight.reqs[2].body.status # S("offer")
  /\ jobApplications[1].status = S("offer")

\* C24: when a DELETE and a PATCH of the owner on one entity interleave, the
\* PATCH is answered 200 or 404, never 500, and the entity is absent once
\* both are answered.
C24_PatchAgainstDelete ==
  \A p \in 1 .. 2 :
    ( /\ RaceDone
      /\ inflight.reqs[p].op = "PATCH"
      /\ inflight.reqs[3 - p].op = "DELETE"
      /\ inflight.reqs[3 - p].code = 204 ) =>
      /\ inflight.reqs[p].code \in {200, 404}
      /\ 1 \notin DOMAIN jobApplications

\* C25: whatever the bodies of the PATCH requests, id and userId included,
\* every stored entity has an id equal to the key it is stored under and keeps
\* the userId it had.
C25_IdentityFieldsFixed ==
  /\ \A kind \in Kinds : \A id \in DOMAIN Rows(kind, Tables) :
       Rows(kind, Tables)[id].id = N(id)
  /\ (ByIdCall /\ last.op = "PATCH") =>
       \A id \in DOMAIN Rows(last.kind, Tables) \cap DOMAIN Rows(last.kind, before.tables) :
         Rows(last.kind, Tables)[id].userId = Rows(last.kind, before.tables)[id].userId

\* the stored job application an interview payload or record names belongs
\* to the given user
NamesOwnApplication(interview, userId) ==
  /\ Has(interview, "jobApplicationId")
  /\ \E id \in DOMAIN jobApplications :
       /\ interview.jobApplicationId = N(id)
       /\ jobApplications[id].userId = userId

C27_CountsAddUp ==
  StatsCall =>
    last.json.applicationsByStatus.applied + last.json.applicationsByStatus.interview
      + last.json.applicationsByStatus.offer + last.json.applicationsByStatus.rejected
      = last.json.totalApplications

\* C28: in the stats returned for a user responseRate is between 0 and 100
\* and daysInSearch is not negative, whatever appliedDate the clients sent.
C28_StatsInRange ==
  StatsCall =>
    /\ 0 <= last.json.responseRate
    /\ last.json.responseRate <= 100
    /\ last.json.daysInSearch >= 0

\* the optional fields of a job application (insertJobApplicationSchema)
OptionalFields ==
  {"location", "salary", "jobType", "workMode", "description", "notes", "url",
   "contactInfo", "resumeId", "coverId"}

\* getJobApplicationById(id) and the list of the application's user both
\* return field f of application id with value v
ReadsBack(id, f, v) ==
  LET got == getJobApplicationById(id)
  IN /\ got # Undefined
     /\ Has(got[1], f) /\ got[1][f] = v
     /\ id \in DOMAIN jobApplications
     /\ LET list == getJobApplicationsByUserId(jobApplications[id].userId[2])
        IN \E i \in 1 .. Len(list) :
             list[i].id = N(id) /\ Has(list[i], f) /\ list[i][f] = v

\* C29: every optional field a creation payload carries comes back with the
\* same value in the result of createJobApplication, in a get by id and in
\* the list of the user read after it; every optional field an update of a
\* stored application carries comes back in the reads after the update.
C29_OptionalFieldsRoundTrip ==
  /\ (CreateCall /\ last.op = "createJobApplication") =>
       \A f \in OptionalFields \cap DOMAIN last.body :
         /\ Has(last.json, f) /\ last.json[f] = last.body[f]
         /\ ReadsBack(last.json.id[2], f, last.body[f])
  /\ (UpdateCall /\ last.op = "updateJobApplication") =>
       \A f \in OptionalFields \cap DOMAIN last.body :
         ReadsBack(last.id, f, last.body[f])

\* an entity without the timestamps a store sets by itself
Untimed(e) == [f \in DOMAIN e \ {"appliedDate", "createdAt", "updatedAt"} |-> e[f]]

UntimedRows(rows) == [id \in DOMAIN rows |-> Untimed(rows[id])]

\* two outcomes of one call agree, timestamps apart: both throw, or both
\* resolve to the same value and leave the same entities
SameOutcome(m, p) ==
  /\ m.threw = p.threw
  /\ ~m.threw =>
       /\ Untimed(m.value) = Untimed(p.value)
       /\ \A t \in {"jobApplications", "documents", "interviews"} :
            UntimedRows(m.tables[t]) = UntimedRows(p.tables[t])

\* both stores as constructed: no entity, every counter at 1
Fresh == Tables = NoTables /\ Created = 0

\* C30: MemStorage and PostgresStorage are interchangeable: started alike,
\* each create call with the same argument has in both, timestamps apart,
\* the same result and leaves the same entities.
C30_StoresInterchangeable ==
  Fresh =>
    /\ \A application \in StoreInsertApplications :
         SameOutcome(Mem_createJobApplication(application),
                     Pg_createJobApplication(application))
    /\ \A document \in StoreInsertDocuments :
         SameOutcome(Mem_createDocument(document), Pg_createDocument(document))

====
